---- MODULE Spec2Model ----
(***************************************************************************)
(* The places history store: apply_observation and the read queries of     *)
(* components/places/src/storage.rs, over the two tables moz_places and    *)
(* moz_historyvisits.                                                      *)
(***************************************************************************)
EXTENDS Integers, Sequences, FiniteSets, TLC

VARIABLES db, last, hist, tx

vars == <<db, last, hist, tx>>

(***************************************************************************)
(* Bounds and input domains                                                *)
(***************************************************************************)
\* most rows moz_historyvisits holds (one more where only visits are observed)
MaxVisits == 2
\* most URLs one get_visited call is given
MaxUrls == 3
\* bound-parameter limit of the engine that each_chunk_mapped splits by
ChunkSize == 2
\* greatest limit get_visited is compared under, and the longest list then
MaxChunk == 3
MaxList == 4

\* Option<T>: None, or Some(v)
None == <<>>
Some(v) == <<v>>
IsSome(o) == o # <<>>
Unwrap(o) == o[1]
unwrap_or(o, d) == IF o = <<>> THEN d ELSE o[1]

\* URLs observations are made for, and one more that only queries use
Urls == {"u1", "u2"}
QueryUrls == Urls \cup {"u3"}
Titles == {"", "a", "b"}
Timestamps == {1, 2, 3}
Guids == <<"g1", "g2", "g3">>
VisitTransitions == {"Link", "Typed", "FramedLink"}
OptBool == {None, Some(TRUE), Some(FALSE)}

\* the statements of one apply_observation call that can fail
FailPoints ==
  {"begin", "lookup", "create", "visit", "update", "frecency_calc",
   "frecency_update", "commit"}

(***************************************************************************)
(* Collaborators outside storage.rs                                        *)
(***************************************************************************)
\* hash::hash_url: a short hash, on which distinct URLs may collide
hash_url(url) == IF url = "u3" THEN 2 ELSE 1

\* VisitObservation::get_is_hidden: the transition kinds that are always hidden
get_is_hidden(ob) == ob.visit_type = Some("FramedLink")

\* VisitObservation::get_redirect_frecency_boost
get_redirect_frecency_boost(ob) == FALSE

\* The columns an INSERT INTO moz_places (guid, url, url_hash) leaves to the
\* schema's defaults.
DefaultPlace(id, guid, url) ==
  [id |-> id, guid |-> guid, url |-> url, url_hash |-> hash_url(url),
   title |-> "", hidden |-> TRUE, typed |-> 0, frecency |-> -1,
   visit_count_local |-> 0, visit_count_remote |-> 0,
   last_visit_date_local |-> 0, last_visit_date_remote |-> 0]

Max(a, b) == IF a >= b THEN a ELSE b

\* The storage layer's trigger after an INSERT on moz_historyvisits: it keeps
\* the owning page's counts and last visit dates.
AfterVisitInsert(h, v) ==
  IF h.id # v.place_id THEN h
  ELSE IF v.is_local
    THEN [h EXCEPT !.visit_count_local = @ + 1,
                   !.last_visit_date_local = Max(@, v.visit_date)]
    ELSE [h EXCEPT !.visit_count_remote = @ + 1,
                   !.last_visit_date_remote = Max(@, v.visit_date)]

VisitsOf(conn, id) ==
  {i \in DOMAIN conn.moz_historyvisits : conn.moz_historyvisits[i].place_id = id}

\* frecency::calculate_frecency: a score read from the page's columns and its
\* visits as they are on the connection when it is called.
calculate_frecency(conn, page_id, redirect) ==
  LET h == conn.moz_places[page_id]
  IN 100 * Cardinality(VisitsOf(conn, page_id)) + 10 * h.typed
     + (IF h.hidden THEN 0 ELSE 4) + (IF h.title = "" THEN 0 ELSE 2)
     + (IF redirect = Some(TRUE) THEN 1 ELSE 0)

(***************************************************************************)
(* storage.rs                                                              *)
(***************************************************************************)
MinOf(S) == CHOOSE i \in S : \A j \in S : i <= j

PageInfo_from_row(h) ==
  [url |-> h.url, guid |-> h.guid, row_id |-> h.id, title |-> h.title,
   hidden |-> h.hidden, typed |-> h.typed, frecency |-> h.frecency,
   visit_count_local |-> h.visit_count_local,
   visit_count_remote |-> h.visit_count_remote,
   last_visit_date_local |-> h.last_visit_date_local,
   last_visit_date_remote |-> h.last_visit_date_remote]

\* the rows of moz_places the WHERE clause of a lookup by URL selects
RowsFor(conn, url) ==
  {i \in DOMAIN conn.moz_places :
     /\ conn.moz_places[i].url_hash = hash_url(url)
     /\ conn.moz_places[i].url = url}

\* the scalar subquery AS last_visit_id: the visits of the page that carry one
\* of its two last visit dates
LastVisitIds(conn, h) ==
  {i \in DOMAIN conn.moz_historyvisits :
     /\ conn.moz_historyvisits[i].place_id = h.id
     /\ \/ conn.moz_historyvisits[i].visit_date = h.last_visit_date_local
        \/ conn.moz_historyvisits[i].visit_date = h.last_visit_date_remote}

\* FetchedPageInfo::from_row: a NULL last_visit_id is expect()ed away
FetchedPageInfo_from_row(conn, h) ==
  LET ids == LastVisitIds(conn, h)
  IN IF ids = {} THEN [kind |-> "panic", msg |-> "No visit id!"]
     ELSE [kind |-> "ok",
           value |-> Some([page |-> PageInfo_from_row(h),
                           last_visit_id |-> MinOf(ids)])]

fetch_page_info(conn, url) ==
  LET rows == RowsFor(conn, url)
  IN IF rows = {} THEN [kind |-> "ok", value |-> None]
     ELSE FetchedPageInfo_from_row(conn, conn.moz_places[MinOf(rows)])

\* guid_r is what random_guid() returned: Some(guid), or None when it failed
new_page_info(conn, url, guid_r, fail) ==
  IF guid_r = None
    THEN [kind |-> "panic", msg |-> "random_guid", conn |-> conn]
  ELSE IF fail = "create"
         \/ \E i \in DOMAIN conn.moz_places : conn.moz_places[i].url = url
    THEN [kind |-> "err", conn |-> conn]
  ELSE LET id == Len(conn.moz_places) + 1
       IN [kind |-> "ok",
           conn |-> [conn EXCEPT !.moz_places =
                       Append(@, DefaultPlace(id, Unwrap(guid_r), url))],
           page |-> [url |-> url, guid |-> Unwrap(guid_r), row_id |-> id,
                     title |-> "", hidden |-> TRUE, typed |-> 0,
                     frecency |-> -1,
                     visit_count_local |-> 0, visit_count_remote |-> 0,
                     last_visit_date_local |-> 0,
                     last_visit_date_remote |-> 0]]

add_visit(conn, page_id, from_visit, visit_date, visit_type, is_local, fail) ==
  IF fail = "visit" THEN [kind |-> "err", conn |-> conn]
  ELSE LET rid == Len(conn.moz_historyvisits) + 1
           v == [id |-> rid, from_visit |-> from_visit, place_id |-> page_id,
                 visit_date |-> visit_date, visit_type |-> visit_type,
                 is_local |-> is_local]
       IN [kind |-> "ok", value |-> rid,
           conn |-> [moz_places |->
                       [i \in DOMAIN conn.moz_places |->
                          AfterVisitInsert(conn.moz_places[i], v)],
                     moz_historyvisits |-> Append(conn.moz_historyvisits, v)]]

\* The updates vector of lines 136-155: the (column, value) pairs staged for
\* the page as it was fetched or created.
StagedTitle_nonempty(page_info, visit_ob) ==
  IF IsSome(visit_ob.title) /\ Unwrap(visit_ob.title) # ""
    THEN {<<"title", Unwrap(visit_ob.title)>>} ELSE {}

StagedTitle(page_info, visit_ob) ==
  IF IsSome(visit_ob.title) THEN {<<"title", Unwrap(visit_ob.title)>>} ELSE {}

\* hidden staged only by the visits that also renew the frecency
StagedHidden_unless_error(page_info, visit_ob) ==
  IF /\ IsSome(visit_ob.visit_type) /\ ~get_is_hidden(visit_ob)
     /\ ~unwrap_or(visit_ob.is_error, FALSE)
    THEN {<<"hidden", FALSE>>} ELSE {}

StagedHidden_by_policy(page_info, visit_ob) ==
  IF IsSome(visit_ob.visit_type)
    THEN {<<"hidden", get_is_hidden(visit_ob)>>} ELSE {}

StagedHidden(page_info, visit_ob) ==
  IF IsSome(visit_ob.visit_type) /\ ~get_is_hidden(visit_ob)
    THEN {<<"hidden", FALSE>>} ELSE {}

StagedTyped_every_visit(page_info, visit_ob) ==
  IF IsSome(visit_ob.visit_type)
    THEN {<<"typed", page_info.typed + 1>>} ELSE {}

StagedTyped(page_info, visit_ob) ==
  IF visit_ob.visit_type = Some("Typed")
    THEN {<<"typed", page_info.typed + 1>>} ELSE {}

StagedUpdates(page_info, visit_ob) ==
  StagedTitle(page_info, visit_ob) \cup StagedHidden(page_info, visit_ob)
    \cup StagedTyped(page_info, visit_ob)

\* every visit dated by the clock
VisitDate_clock(visit_ob, now) == now

\* the arguments line 157-159 hand to add_visit
VisitDate(visit_ob, now) == unwrap_or(visit_ob.at, now)

VisitIsLocal_is_remote(visit_ob) == unwrap_or(visit_ob.is_remote, FALSE)
VisitIsLocal(visit_ob) == ~unwrap_or(visit_ob.is_remote, FALSE)

NeedsFrecency_every_visit(visit_ob) == IsSome(visit_ob.visit_type)

\* a new visit implies new frecency except in error cases
NeedsFrecency(visit_ob) ==
  IsSome(visit_ob.visit_type) /\ ~unwrap_or(visit_ob.is_error, FALSE)

\* an UPDATE that sets all three columns, those not staged to their defaults
Staged_or_default(updates, col, old) ==
  IF \E u \in updates : u[1] = col
    THEN (CHOOSE u \in updates : u[1] = col)[2]
    ELSE IF col = "title" THEN "" ELSE IF col = "hidden" THEN TRUE ELSE 0

Staged(updates, col, old) ==
  IF \E u \in updates : u[1] = col
    THEN (CHOOSE u \in updates : u[1] = col)[2]
    ELSE old

\* the UPDATE without its WHERE clause
UpdateColumns_every_row(conn, row_id, updates) ==
  [conn EXCEPT !.moz_places =
     [i \in DOMAIN @ |->
        [@[i] EXCEPT !.title = Staged(updates, "title", @),
                     !.hidden = Staged(updates, "hidden", @),
                     !.typed = Staged(updates, "typed", @)]]]

\* the single UPDATE moz_places SET <staged columns> WHERE id == :row_id
UpdateColumns(conn, row_id, updates) ==
  [conn EXCEPT !.moz_places[row_id] =
     [@ EXCEPT !.title = Staged(updates, "title", @),
               !.hidden = Staged(updates, "hidden", @),
               !.typed = Staged(updates, "typed", @)]]

\* UPDATE moz_places SET frecency = :frecency WHERE id = :row_id
UpdateFrecencyColumn(conn, row_id, score) ==
  IF row_id \in DOMAIN conn.moz_places
    THEN [conn EXCEPT !.moz_places[row_id].frecency = score]
    ELSE conn

\* the frecency calculated before the page UPDATE instead of after it
WritePage_score_first(conn, row_id, updates, visit_ob, visit_row_id, fail) ==
  IF updates # {} /\ fail = "update" THEN [kind |-> "err", conn |-> conn]
  ELSE LET conn1 == IF updates # {}
                      THEN UpdateColumns(conn, row_id, updates)
                      ELSE conn
       IN IF ~NeedsFrecency(visit_ob)
            THEN [kind |-> "ok", value |-> visit_row_id, conn |-> conn1]
          ELSE IF fail \in {"frecency_calc", "frecency_update"}
            THEN [kind |-> "err", conn |-> conn1]
          ELSE [kind |-> "ok", value |-> visit_row_id,
                conn |-> UpdateFrecencyColumn(conn1, row_id,
                           calculate_frecency(conn, row_id,
                             Some(get_redirect_frecency_boost(visit_ob))))]

\* lines 169-198: the page UPDATE, then the frecency and its UPDATE
WritePage(conn, row_id, updates, visit_ob, visit_row_id, fail) ==
  IF updates # {} /\ fail = "update" THEN [kind |-> "err", conn |-> conn]
  ELSE LET conn1 == IF updates # {}
                      THEN UpdateColumns(conn, row_id, updates)
                      ELSE conn
       IN IF ~NeedsFrecency(visit_ob)
            THEN [kind |-> "ok", value |-> visit_row_id, conn |-> conn1]
          ELSE IF fail \in {"frecency_calc", "frecency_update"}
            THEN [kind |-> "err", conn |-> conn1]
          ELSE [kind |-> "ok", value |-> visit_row_id,
                conn |-> UpdateFrecencyColumn(conn1, row_id,
                           calculate_frecency(conn1, row_id,
                             Some(get_redirect_frecency_boost(visit_ob))))]

\* lines 136-199, once the page is resolved to page_info on connection conn
ApplyToPage(conn, page_info, visit_ob, now, fail) ==
  LET updates == StagedUpdates(page_info, visit_ob)
  IN IF IsSome(visit_ob.visit_type)
       THEN LET added == add_visit(conn, page_info.row_id, None,
                                   VisitDate(visit_ob, now),
                                   Unwrap(visit_ob.visit_type),
                                   VisitIsLocal(visit_ob), fail)
            IN IF added.kind # "ok" THEN added
               ELSE WritePage(added.conn, page_info.row_id, updates, visit_ob,
                              Some(added.value), fail)
       ELSE WritePage(conn, page_info.row_id, updates, visit_ob, None, fail)

\* random_guid() called before the page is looked up
apply_observation_direct_guid_first(conn, visit_ob, now, guid_r, fail) ==
  IF guid_r = None
    THEN [kind |-> "panic", msg |-> "random_guid", conn |-> conn]
  ELSE IF fail = "lookup" THEN [kind |-> "err", conn |-> conn]
  ELSE LET fetched == fetch_page_info(conn, visit_ob.url)
       IN IF fetched.kind = "panic"
            THEN [kind |-> "panic", msg |-> fetched.msg, conn |-> conn]
          ELSE IF IsSome(fetched.value)
            THEN ApplyToPage(conn, Unwrap(fetched.value).page, visit_ob, now,
                             fail)
          ELSE LET created == new_page_info(conn, visit_ob.url, guid_r, fail)
               IN IF created.kind # "ok" THEN created
                  ELSE ApplyToPage(created.conn, created.page, visit_ob, now,
                                   fail)

apply_observation_direct(conn, visit_ob, now, guid_r, fail) ==
  IF fail = "lookup" THEN [kind |-> "err", conn |-> conn]
  ELSE LET fetched == fetch_page_info(conn, visit_ob.url)
       IN IF fetched.kind = "panic"
            THEN [kind |-> "panic", msg |-> fetched.msg, conn |-> conn]
          ELSE IF IsSome(fetched.value)
            THEN ApplyToPage(conn, Unwrap(fetched.value).page, visit_ob, now,
                             fail)
          ELSE LET created == new_page_info(conn, visit_ob.url, guid_r, fail)
               IN IF created.kind # "ok" THEN created
                  ELSE ApplyToPage(created.conn, created.page, visit_ob, now,
                                   fail)

\* the loser of a creation race looks the page up again and goes on with it
after_lookup_retry(conn, found, visit_ob, now, guid_r, fail) ==
  LET again == IF IsSome(found) THEN found
               ELSE fetch_page_info(conn, visit_ob.url).value
  IN IF IsSome(again)
       THEN ApplyToPage(conn, Unwrap(again).page, visit_ob, now, fail)
     ELSE LET created == new_page_info(conn, visit_ob.url, guid_r, fail)
          IN IF created.kind # "ok" THEN created
             ELSE ApplyToPage(created.conn, created.page, visit_ob, now, fail)

\* lines 132-199 for a lookup that has answered found: the match on it, with
\* new_page_info's error handed on by ?, and the rest of the call
after_lookup(conn, found, visit_ob, now, guid_r, fail) ==
  IF IsSome(found)
    THEN ApplyToPage(conn, Unwrap(found).page, visit_ob, now, fail)
  ELSE LET created == new_page_info(conn, visit_ob.url, guid_r, fail)
       IN IF created.kind # "ok" THEN created
          ELSE ApplyToPage(created.conn, created.page, visit_ob, now, fail)

\* the statements run on the connection itself, outside any transaction
apply_observation_autocommit(store, visit_ob, now, guid_r, fail) ==
  IF fail = "begin" THEN [kind |-> "err", store |-> store]
  ELSE LET result == apply_observation_direct(store, visit_ob, now, guid_r, fail)
       IN IF result.kind = "panic"
            THEN [kind |-> "panic", msg |-> result.msg, store |-> result.conn]
          ELSE IF result.kind # "ok"
            THEN [kind |-> "err", store |-> result.conn]
          ELSE IF fail = "commit"
            THEN [kind |-> "err", store |-> result.conn]
          ELSE [kind |-> "ok", value |-> result.value, store |-> result.conn]

\* The transaction: dropped without commit, it rolls the connection back to
\* store, which is also what an unwinding panic leaves.
apply_observation(store, visit_ob, now, guid_r, fail) ==
  IF fail = "begin" THEN [kind |-> "err", store |-> store]
  ELSE LET result == apply_observation_direct(store, visit_ob, now, guid_r, fail)
       IN IF result.kind = "panic"
            THEN [kind |-> "panic", msg |-> result.msg, store |-> store]
          ELSE IF result.kind # "ok" THEN [kind |-> "err", store |-> store]
          ELSE IF fail = "commit" THEN [kind |-> "err", store |-> store]
          ELSE [kind |-> "ok", value |-> result.value, store |-> result.conn]

Min(a, b) == IF a <= b THEN a ELSE b

\* the index of a match taken within its chunk
VisitedIndexes_chunk_local(store, urls, chunk, offset) ==
  {i \in 0..(Len(chunk) - 1) :
     \E k \in DOMAIN store.moz_places :
        /\ store.moz_places[k].url_hash = hash_url(urls[i + offset + 1])
        /\ store.moz_places[k].url = chunk[i + 1]}

\* the join made on the hash alone
VisitedIndexes_hash_only(store, urls, chunk, offset) ==
  {i + offset : i \in {j \in 0..(Len(chunk) - 1) :
     \E k \in DOMAIN store.moz_places :
        store.moz_places[k].url_hash = hash_url(urls[j + offset + 1])}}

\* One closure call of each_chunk_mapped in get_visited: chunk is the slice of
\* urls that starts at the 0-based offset; the result is the set of
\* fetch_url_index values the join returns.
VisitedIndexes(store, urls, chunk, offset) ==
  {i + offset : i \in {j \in 0..(Len(chunk) - 1) :
     \E k \in DOMAIN store.moz_places :
        /\ store.moz_places[k].url_hash = hash_url(urls[j + offset + 1])
        /\ store.moz_places[k].url = chunk[j + 1]}}

\* sql_support::each_chunk_mapped, folded over the result vector
RECURSIVE each_chunk_mapped(_, _, _, _)
each_chunk_mapped(store, urls, offset, result) ==
  IF offset >= Len(urls) THEN result
  ELSE LET n == Min(ChunkSize, Len(urls) - offset)
           chunk == SubSeq(urls, offset + 1, offset + n)
           idxs == VisitedIndexes(store, urls, chunk, offset)
       IN each_chunk_mapped(store, urls, offset + n,
            [k \in DOMAIN result |-> result[k] \/ (k - 1) \in idxs])

get_visited(store, urls) ==
  each_chunk_mapped(store, urls, 0, [k \in 1..Len(urls) |-> FALSE])

\* each_chunk_mapped under an engine whose limit is size
RECURSIVE each_chunk_mapped_by(_, _, _, _, _)
each_chunk_mapped_by(size, store, urls, offset, result) ==
  IF offset >= Len(urls) THEN result
  ELSE LET n == Min(size, Len(urls) - offset)
           chunk == SubSeq(urls, offset + 1, offset + n)
           idxs == VisitedIndexes(store, urls, chunk, offset)
       IN each_chunk_mapped_by(size, store, urls, offset + n,
            [k \in DOMAIN result |-> result[k] \/ (k - 1) \in idxs])

get_visited_by(size, store, urls) ==
  each_chunk_mapped_by(size, store, urls, 0, [k \in 1..Len(urls) |-> FALSE])

\* the range test made with an exclusive upper end
VisitInRange_end_exclusive(v, start, end, include_remote) ==
  /\ start <= v.visit_date /\ v.visit_date < end
  /\ include_remote \/ v.is_local

\* visit_date BETWEEN :start AND :end {and_is_local}
VisitInRange(v, start, end, include_remote) ==
  /\ start <= v.visit_date /\ v.visit_date <= end
  /\ include_remote \/ v.is_local

\* WHERE EXISTS (SELECT 1 FROM moz_historyvisits v WHERE place_id = h.id ...)
HasVisitInRange(store, h, start, end, include_remote) ==
  \E i \in DOMAIN store.moz_historyvisits :
    /\ store.moz_historyvisits[i].place_id = h.id
    /\ VisitInRange(store.moz_historyvisits[i], start, end, include_remote)

\* get_visited_urls: h.url of the selected rows of moz_places, in table order
get_visited_urls(store, start, end, include_remote) ==
  LET rows == SelectSeq(store.moz_places,
                LAMBDA h : HasVisitInRange(store, h, start, end, include_remote))
  IN [k \in DOMAIN rows |-> rows[k].url]

\* update_frecency: calculate, then UPDATE, on the connection itself
update_frecency(store, id, redirect, fail) ==
  IF fail \in {"frecency_calc", "frecency_update"}
    THEN [kind |-> "err", store |-> store]
    ELSE [kind |-> "ok",
          store |-> UpdateFrecencyColumn(store, id,
                      calculate_frecency(store, id, redirect))]

(***************************************************************************)
(* logins-sql/src/ffi.rs: the error codes handed across the host boundary  *)
(***************************************************************************)
UNEXPECTED == -2
AUTH_INVALID == 1
NO_SUCH_RECORD == 2
DUPLICATE_GUID == 3
INVALID_LOGIN == 4
INVALID_KEY == 5
NETWORK == 6

\* the kinds of sync::ErrorKind a SyncAdapterError carries
HttpStatuses == {400, 401, 403, 404, 500, 503}
Sync15Errors ==
  {[kind |-> "TokenserverHttpError", status |-> s] : s \in HttpStatuses}
    \cup {[kind |-> "RequestError", cause |-> c] : c \in {"timeout", "dns"}}
    \cup {[kind |-> k] : k \in {"BadKeyLength", "StoreError"}}

\* rusqlite::Error: SqliteFailure(ffi::Error, Option<String>), and the others
SqliteCodes ==
  {"InternalMalfunction", "PermissionDenied", "OperationAborted",
   "DatabaseBusy", "DatabaseLocked", "OutOfMemory", "ReadOnly",
   "OperationInterrupted", "SystemIOFailure", "DatabaseCorrupt", "NotFound",
   "DiskFull", "CannotOpen", "FileLockingProtocolFailed", "SchemaChanged",
   "TooBig", "ConstraintViolation", "TypeMismatch", "APIMisuse",
   "NoLargeFileSupport", "AuthorizationForStatementDenied",
   "ParameterOutOfRange", "NotADatabase", "Unknown"}
SqlErrors ==
  {[kind |-> "SqliteFailure", code |-> c, extended_code |-> x, message |-> m] :
     c \in SqliteCodes, x \in {1, 26}, m \in {None, Some("text")}}
    \cup {[kind |-> k] : k \in {"QueryReturnedNoRows", "InvalidColumnIndex"}}

\* ErrorKind of the crate: the kinds get_code names, and some it does not
Errors ==
  {[kind |-> "SyncAdapterError", e |-> e] : e \in Sync15Errors}
    \cup {[kind |-> "DuplicateGuid", id |-> g] : g \in {"g1", "g2"}}
    \cup {[kind |-> "NoSuchRecord", id |-> g] : g \in {"g1", "g2"}}
    \cup {[kind |-> "InvalidLogin", desc |-> d] : d \in {"EmptyOrigin", "EmptyPassword"}}
    \cup {[kind |-> "SqlError", e |-> e] : e \in SqlErrors}
    \cup {[kind |-> k] : k \in {"InvalidSalt", "UrlParseError", "JsonError"}}

\* the guard of the SqlError arm left out
get_code_any_failure(err) ==
  IF err.kind = "SyncAdapterError"
    THEN IF err.e.kind = "TokenserverHttpError" /\ err.e.status = 401
           THEN AUTH_INVALID
         ELSE IF err.e.kind = "RequestError" THEN NETWORK
         ELSE UNEXPECTED
  ELSE IF err.kind = "DuplicateGuid" THEN DUPLICATE_GUID
  ELSE IF err.kind = "NoSuchRecord" THEN NO_SUCH_RECORD
  ELSE IF err.kind = "InvalidLogin" THEN INVALID_LOGIN
  ELSE IF err.kind = "SqlError" /\ err.e.kind = "SqliteFailure"
    THEN INVALID_KEY
  ELSE UNEXPECTED

\* get_code: the arms of the match, tried in their order
get_code(err) ==
  IF err.kind = "SyncAdapterError"
    THEN IF err.e.kind = "TokenserverHttpError" /\ err.e.status = 401
           THEN AUTH_INVALID
         ELSE IF err.e.kind = "RequestError" THEN NETWORK
         ELSE UNEXPECTED
  ELSE IF err.kind = "DuplicateGuid" THEN DUPLICATE_GUID
  ELSE IF err.kind = "NoSuchRecord" THEN NO_SUCH_RECORD
  ELSE IF err.kind = "InvalidLogin" THEN INVALID_LOGIN
  ELSE IF /\ err.kind = "SqlError" /\ err.e.kind = "SqliteFailure"
          /\ err.e.code = "NotADatabase"
    THEN INVALID_KEY
  ELSE UNEXPECTED

(***************************************************************************)
(* The state machine                                                       *)
(***************************************************************************)
OptTitles == {None} \cup {Some(t) : t \in Titles}
OptTransitions == {None} \cup {Some(t) : t \in VisitTransitions}
OptTimestamps == {None} \cup {Some(t) : t \in Timestamps}

VisitObservation(url, title, visit_type, at, is_remote, is_error) ==
  [url |-> url, title |-> title, visit_type |-> visit_type, at |-> at,
   is_remote |-> is_remote, is_error |-> is_error]

\* what the observations applied so far to one URL add up to
NoHistory ==
  [seen |-> FALSE, typed |-> 0, local |-> 0, remote |-> 0, max_local |-> 0,
   max_remote |-> 0, title |-> None, retitled |-> FALSE]

Observed(h, ob, now) ==
  LET visit == IsSome(ob.visit_type)
      is_local == visit /\ ~unwrap_or(ob.is_remote, FALSE)
      is_remote == visit /\ unwrap_or(ob.is_remote, FALSE)
      at == unwrap_or(ob.at, now)
  IN [seen |-> TRUE,
      typed |-> h.typed + (IF ob.visit_type = Some("Typed") THEN 1 ELSE 0),
      local |-> h.local + (IF is_local THEN 1 ELSE 0),
      remote |-> h.remote + (IF is_remote THEN 1 ELSE 0),
      max_local |-> IF is_local THEN Max(h.max_local, at) ELSE h.max_local,
      max_remote |-> IF is_remote THEN Max(h.max_remote, at) ELSE h.max_remote,
      title |-> IF IsSome(ob.title) THEN ob.title ELSE h.title,
      retitled |-> h.retitled
                   \/ (IsSome(ob.title) /\ IsSome(h.title) /\ ob.title # h.title)]

EmptyStore == [moz_places |-> <<>>, moz_historyvisits |-> <<>>]

\* no transaction is open on the writer's connection
TxIdle == [pc |-> "idle"]

Init ==
  /\ db = EmptyStore
  /\ last = [op |-> "open"]
  /\ hist = [u \in Urls |-> NoHistory]
  /\ tx = TxIdle

\* random_guid() hands out a guid no page carries yet: the next of Guids
NextGuid == Guids[Len(db.moz_places) + 1]

\* One call of apply_observation, its observation drawn from the given field
\* domains and a storage failure from fails. The clock is read only when a visit
\* has no time of its own, the guid collaborator only when the page is new.
ApplyObservationOf(urls, titles, kinds, ats, remotes, errors, fails, most) ==
  \E url \in urls, title \in titles, visit_type \in kinds :
    \E at \in (IF visit_type = None THEN {None} ELSE ats),
       is_remote \in (IF visit_type = None THEN {None} ELSE remotes),
       is_error \in (IF visit_type = None THEN {None} ELSE errors) :
      \E now \in (IF visit_type # None /\ at = None THEN Timestamps ELSE {0}),
         guid_r \in (IF RowsFor(db, url) = {}
                       THEN {None, Some(NextGuid)} ELSE {None}),
         fail \in fails \cup {"none"} :
        LET ob == VisitObservation(url, title, visit_type, at, is_remote,
                                   is_error)
            r == apply_observation(db, ob, now, guid_r, fail)
        IN /\ visit_type # None => Len(db.moz_historyvisits) < most
           /\ db' = r.store
           /\ last' = IF r.kind = "ok"
                        THEN [op |-> "apply_observation", kind |-> "ok",
                              value |-> r.value, ob |-> ob, now |-> now]
                      ELSE IF r.kind = "panic"
                        THEN [op |-> "apply_observation", kind |-> "panic",
                              msg |-> r.msg, ob |-> ob]
                      ELSE [op |-> "apply_observation", kind |-> "err",
                            fail |-> fail]
           /\ hist' = IF r.kind = "ok"
                        THEN [hist EXCEPT ![url] = Observed(@, ob, now)]
                        ELSE hist
           /\ UNCHANGED tx

\* observations that differ in what they stage for the page's columns
ObserveColumns ==
  ApplyObservationOf({"u1"}, OptTitles, OptTransitions, {Some(1)}, {None},
                     OptBool, FailPoints, MaxVisits)

UpdateFrecency ==
  \E id \in DOMAIN db.moz_places, redirect \in {None},
     fail \in {"none", "frecency_calc", "frecency_update"} :
    LET r == update_frecency(db, id, redirect, fail)
    IN /\ db' = r.store
       /\ last' = [op |-> "update_frecency", kind |-> r.kind, id |-> id]
       /\ UNCHANGED <<hist, tx>>

\* visits that differ in when and where they were made
ObserveVisits ==
  ApplyObservationOf(Urls, {None}, {Some("Link")}, OptTimestamps, OptBool,
                     {None}, {}, MaxVisits + 1)

\* observations that make a URL known, with a visit or without one
ObserveUrls ==
  ApplyObservationOf(Urls, {None}, {None, Some("Link")}, {Some(1)}, {None},
                     {None}, {}, MaxVisits)

UrlLists == UNION {[1..n -> QueryUrls] : n \in 0..MaxUrls}

GetVisited ==
  \E urls \in UrlLists, fail \in {"none", "prepare"} :
    /\ last' = IF fail = "none"
                 THEN [op |-> "get_visited", kind |-> "ok", urls |-> urls,
                       value |-> get_visited(db, urls)]
                 ELSE [op |-> "get_visited", kind |-> "err", urls |-> urls]
    /\ UNCHANGED <<db, hist, tx>>

\* visits that differ in their date and in where they were made
ObserveDated ==
  ApplyObservationOf(Urls, {None}, {Some("Link")}, {Some(t) : t \in Timestamps},
                     {None, Some(TRUE)}, {None}, {}, MaxVisits)

GetVisitedUrls ==
  \E start \in Timestamps, end \in Timestamps, include_remote \in BOOLEAN,
     fail \in {"none", "prepare"} :
    /\ last' = IF fail = "none"
                 THEN [op |-> "get_visited_urls", kind |-> "ok",
                       start |-> start, end |-> end,
                       include_remote |-> include_remote,
                       value |-> get_visited_urls(db, start, end,
                                                  include_remote)]
                 ELSE [op |-> "get_visited_urls", kind |-> "err"]
    /\ UNCHANGED <<db, hist, tx>>

(***************************************************************************)
(* apply_observation statement by statement, with a reader on a second     *)
(* connection between its statements                                       *)
(***************************************************************************)
\* the statements run on the connection itself, outside any transaction
TxWrite_autocommit(committed, conn) == [committed |-> conn, conn |-> conn]

\* A statement executed on tx.conn(): what it wrote is on the transaction's
\* connection and not in the committed store.
TxWrite(committed, conn) == [committed |-> committed, conn |-> conn]

\* what a read on another connection is given: the committed store
ReaderView(committed, conn) == committed

\* let tx = db.db.transaction()?
TxBegin ==
  /\ tx.pc = "idle"
  /\ Len(db.moz_historyvisits) < MaxVisits
  /\ \E title \in {None, Some("a")}, visit_type \in {Some("Link"), Some("Typed")},
        is_error \in {None, Some(TRUE)} :
       tx' = [pc |-> "page", pre |-> db, conn |-> db,
              ob |-> VisitObservation("u1", title, visit_type, Some(1), None,
                                      is_error),
              guid_r |-> Some(NextGuid), page |-> None, visit |-> None]
  /\ last' = [op |-> "begin"]
  /\ UNCHANGED <<db, hist>>

\* lines 131-135: the page is fetched, or created
TxPage ==
  /\ tx.pc = "page"
  /\ LET fetched == fetch_page_info(tx.conn, tx.ob.url)
         created == new_page_info(tx.conn, tx.ob.url, tx.guid_r, "none")
         found == fetched.kind = "ok" /\ IsSome(fetched.value)
         w == TxWrite(db, IF found THEN tx.conn ELSE created.conn)
     IN /\ fetched.kind = "ok"
        /\ db' = w.committed
        /\ tx' = [tx EXCEPT !.pc = "visit", !.conn = w.conn,
                    !.page = Some(IF found THEN Unwrap(fetched.value).page
                                           ELSE created.page)]
  /\ UNCHANGED <<last, hist>>

\* line 159: add_visit
TxVisit ==
  /\ tx.pc = "visit"
  /\ LET added == add_visit(tx.conn, Unwrap(tx.page).row_id, None,
                            VisitDate(tx.ob, 0), Unwrap(tx.ob.visit_type),
                            VisitIsLocal(tx.ob), "none")
         w == TxWrite(db, added.conn)
     IN /\ db' = w.committed
        /\ tx' = [tx EXCEPT !.pc = "update", !.conn = w.conn,
                            !.visit = Some(added.value)]
  /\ UNCHANGED <<last, hist>>

\* lines 169-181: the UPDATE of the staged columns
TxUpdate ==
  /\ tx.pc = "update"
  /\ LET updates == StagedUpdates(Unwrap(tx.page), tx.ob)
         w == TxWrite(db, IF updates # {}
                            THEN UpdateColumns(tx.conn, Unwrap(tx.page).row_id,
                                               updates)
                            ELSE tx.conn)
     IN /\ db' = w.committed
        /\ tx' = [tx EXCEPT !.pc = "frecency", !.conn = w.conn]
  /\ UNCHANGED <<last, hist>>

\* lines 183-197: the frecency and its UPDATE
TxFrecency ==
  /\ tx.pc = "frecency"
  /\ LET row_id == Unwrap(tx.page).row_id
         score == calculate_frecency(tx.conn, row_id,
                    Some(get_redirect_frecency_boost(tx.ob)))
         w == TxWrite(db, IF NeedsFrecency(tx.ob)
                            THEN UpdateFrecencyColumn(tx.conn, row_id, score)
                            ELSE tx.conn)
     IN /\ db' = w.committed
        /\ tx' = [tx EXCEPT !.pc = "commit", !.conn = w.conn]
  /\ UNCHANGED <<last, hist>>

\* tx.commit()?, or the transaction dropped when commit fails
TxCommit ==
  /\ tx.pc = "commit"
  /\ \E fail \in {"none", "commit"} :
       IF fail = "none"
         THEN /\ db' = tx.conn
              /\ last' = [op |-> "apply_observation", kind |-> "ok",
                          value |-> tx.visit, ob |-> tx.ob, now |-> 0]
              /\ hist' = [hist EXCEPT ![tx.ob.url] = Observed(@, tx.ob, 0)]
         ELSE /\ db' = ReaderView(db, tx.conn)
              /\ last' = [op |-> "apply_observation", kind |-> "err",
                          fail |-> fail]
              /\ hist' = hist
  /\ tx' = TxIdle

Queries == {"fetch_page", "get_visited", "get_visited_urls"}

RunQuery(store, query) ==
  IF query = "fetch_page" THEN fetch_page_info(store, "u1")
  ELSE IF query = "get_visited" THEN get_visited(store, <<"u1", "u2">>)
  ELSE get_visited_urls(store, 1, 3, TRUE)

\* a read made on a second connection, at any point of the writer's call
Read ==
  /\ \E query \in Queries :
       last' = [op |-> "read", query |-> query, pc |-> tx.pc,
                value |-> RunQuery(ReaderView(db, tx.conn), query)]
  /\ UNCHANGED <<db, hist, tx>>

(***************************************************************************)
(* Two writers: one call has made its lookup when other calls commit       *)
(***************************************************************************)
\* the calls of the other writers, each whole
ObserveRacing ==
  /\ ApplyObservationOf(Urls, {None, Some("a")}, {Some("Link")}, {Some(1)},
                        {None}, {None}, {}, MaxVisits)

\* line 131: fetch_page_info of a call whose other statements come later
RaceLookup ==
  /\ tx.pc = "idle"
  /\ Len(db.moz_historyvisits) < MaxVisits
  /\ \E url \in Urls, title \in {None, Some("b")} :
       LET fetched == fetch_page_info(db, url)
       IN /\ fetched.kind = "ok"
          /\ tx' = [pc |-> "looked", found |-> fetched.value,
                    ob |-> VisitObservation(url, title, Some("Link"), Some(2),
                                            None, None)]
  /\ last' = [op |-> "begin"]
  /\ UNCHANGED <<db, hist>>

\* lines 132-199 and the commit of that call, on the store as it is by then
RaceFinish ==
  /\ tx.pc = "looked"
  /\ LET r == after_lookup(db, tx.found, tx.ob, 0, Some(NextGuid), "none")
     IN IF r.kind = "ok"
          THEN /\ db' = r.conn
               /\ last' = [op |-> "apply_observation", kind |-> "ok",
                           value |-> r.value, ob |-> tx.ob, now |-> 0]
               /\ hist' = [hist EXCEPT ![tx.ob.url] = Observed(@, tx.ob, 0)]
          ELSE /\ db' = db
               /\ last' = [op |-> "apply_observation", kind |-> "err",
                           fail |-> "unique"]
               /\ hist' = hist
  /\ tx' = TxIdle

\* visits that make pages for the lists to find
ObserveLinks ==
  ApplyObservationOf(Urls, {None}, {Some("Link")}, {Some(1)}, {None}, {None},
                     {}, MaxVisits)

\* lists of a URL that may be known and one that never is, in every order
ChunkLists == UNION {[1..n -> {"u1", "u3"}] : n \in 0..MaxList}

\* get_visited on an engine with any limit from 1 to MaxChunk
GetVisitedChunked ==
  \E urls \in ChunkLists, size \in 1..MaxChunk :
    /\ last' = [op |-> "get_visited", kind |-> "ok", urls |-> urls,
                size |-> size, value |-> get_visited_by(size, db, urls)]
    /\ UNCHANGED <<db, hist, tx>>

\* observations with no visit, a visit that unhides or one that never does,
\* made here or elsewhere, flagged as errors or not
ObserveHidden ==
  ApplyObservationOf(Urls, {None}, {None, Some("Link"), Some("FramedLink")},
                     {Some(1)}, {None, Some(TRUE)}, {None, Some(TRUE)}, {},
                     MaxVisits)

\* visits of two kinds, dated or left to the clock, made here or elsewhere
ObserveRows ==
  ApplyObservationOf(Urls, {None}, {Some("Link"), Some("Typed")},
                     {None, Some(2)}, OptBool, {None}, {"visit"}, MaxVisits)

\* impl From<Error> for ExternError: an error of the crate reaches the host
FromError ==
  /\ \E e \in Errors :
       last' = [op |-> "get_code", err |-> e, code |-> get_code(e)]
  /\ UNCHANGED <<db, hist, tx>>

\* observations of two URLs that stage every column, with a visit or without
ObserveFrame ==
  ApplyObservationOf(Urls, {None, Some("a")},
                     {None, Some("Link"), Some("Typed")}, {Some(2)},
                     {None, Some(TRUE)}, {None}, {"update"}, MaxVisits)

Next == ObserveColumns \/ UpdateFrecency

Spec == Init /\ [][Next]_vars

NextCounts == ObserveVisits

SpecCounts == Init /\ [][NextCounts]_vars

NextQueries == ObserveUrls \/ GetVisited

SpecQueries == Init /\ [][NextQueries]_vars

NextChunks == ObserveLinks \/ GetVisitedChunked

SpecChunks == Init /\ [][NextChunks]_vars

NextHidden == ObserveHidden

SpecHidden == Init /\ [][NextHidden]_vars

NextRows == ObserveRows

SpecRows == Init /\ [][NextRows]_vars

NextFfi == FromError

SpecFfi == Init /\ [][NextFfi]_vars

NextFrame == ObserveFrame

SpecFrame == Init /\ [][NextFrame]_vars

NextRange == ObserveDated \/ GetVisitedUrls

SpecRange == Init /\ [][NextRange]_vars

NextTx ==
  TxBegin \/ TxPage \/ TxVisit \/ TxUpdate \/ TxFrecency \/ TxCommit \/ Read

SpecTx == Init /\ [][NextTx]_vars

NextRace == ObserveRacing \/ RaceLookup \/ RaceFinish

SpecRace == Init /\ [][NextRace]_vars

(***************************************************************************)
(* Properties                                                              *)
(***************************************************************************)
Known(store, url) == RowsFor(store, url) # {}
Place(store, url) == store.moz_places[MinOf(RowsFor(store, url))]
PageVisits(store, url) ==
  IF Known(store, url) THEN VisitsOf(store, Place(store, url).id) ELSE {}
TypedOf(store, url) == IF Known(store, url) THEN Place(store, url).typed ELSE 0
FrecencyOf(store, url) ==
  IF Known(store, url) THEN Place(store, url).frecency ELSE -1
Applied == last.op = "apply_observation" /\ last.kind = "ok"
AppliedVisit == Applied /\ IsSome(last.ob.visit_type)

\* everything a successful call for ob leaves in the store post, made from pre
EffectsCommitted(pre, post, ob, value) ==
  /\ Known(post, ob.url)
  /\ IF IsSome(ob.visit_type)
       THEN /\ Len(post.moz_historyvisits) = Len(pre.moz_historyvisits) + 1
            /\ value = Some(Len(post.moz_historyvisits))
            /\ post.moz_historyvisits[Len(post.moz_historyvisits)].place_id
                 = Place(post, ob.url).id
       ELSE /\ post.moz_historyvisits = pre.moz_historyvisits
            /\ value = None
  /\ IsSome(ob.title) => Place(post, ob.url).title = Unwrap(ob.title)
  /\ (IsSome(ob.visit_type) /\ ~get_is_hidden(ob))
       => ~Place(post, ob.url).hidden
  /\ ob.visit_type = Some("Typed")
       => Place(post, ob.url).typed = TypedOf(pre, ob.url) + 1
  /\ NeedsFrecency(ob)
       => Place(post, ob.url).frecency
            = calculate_frecency(post, Place(post, ob.url).id,
                                 Some(get_redirect_frecency_boost(ob)))

\* C1: a call of apply_observation that returns success has committed all of
\* its effects (the page, the visit, the staged columns, the frecency), and a
\* call that does not, at whichever statement it failed, leaves moz_places and
\* moz_historyvisits exactly as they were.
C1_Atomic ==
  [][last'.op = "apply_observation"
       => IF last'.kind = "ok"
            THEN EffectsCommitted(db, db', last'.ob, last'.value)
            ELSE db' = db]_vars

\* a call for a new URL whose last statement, the frecency UPDATE, failed
\* after the page, the visit and the columns were written
C1_Witness ==
  /\ last.op = "apply_observation"
  /\ last.kind = "err"
  /\ last.fail = "frecency_update"
  /\ db = EmptyStore

\* C2: every observation without a visit_type, applied in any reachable store
\* (failures of the storage and of the guid collaborator aside), succeeds,
\* returns none, inserts no visit and sets the title it carries.
C2_MetadataOnly ==
  [][(/\ last'.op = "apply_observation"
      /\ last'.kind # "err"
      /\ ~(last'.kind = "panic" /\ last'.msg = "random_guid")
      /\ last'.ob.visit_type = None)
       => /\ last'.kind = "ok"
          /\ last'.value = None
          /\ db'.moz_historyvisits = db.moz_historyvisits
          /\ IsSome(last'.ob.title)
               => Place(db', last'.ob.url).title = Unwrap(last'.ob.title)]_vars

\* C3: a page is hidden when it is created, unless the creating observation
\* is a visit that is not policy-hidden, and a page that is not hidden is not
\* hidden in any later state.
C3_HiddenMonotone ==
  [][\A i \in DOMAIN db'.moz_places :
       IF i \in DOMAIN db.moz_places
         THEN ~db.moz_places[i].hidden => ~db'.moz_places[i].hidden
         ELSE db'.moz_places[i].hidden
                = ~(IsSome(last'.ob.visit_type) /\ ~get_is_hidden(last'.ob))]_vars

\* a policy-hidden visit was applied to a page that is not hidden
C3_Witness ==
  /\ AppliedVisit
  /\ get_is_hidden(last.ob)
  /\ ~Place(db, last.ob.url).hidden

\* C4: an applied Typed observation adds exactly one to the page's typed, any
\* other step leaves it as it was, and typed is the number of Typed
\* observations applied to the URL.
C4_TypedCounts ==
  [][\A u \in Urls :
       Known(db', u) =>
         /\ Place(db', u).typed
              = TypedOf(db, u)
                + (IF /\ last'.op = "apply_observation"
                      /\ last'.kind = "ok"
                      /\ last'.ob.url = u
                      /\ last'.ob.visit_type = Some("Typed")
                     THEN 1 ELSE 0)
         /\ Place(db', u).typed = hist'[u].typed]_vars

\* a second Typed observation was applied to a page
C4_Witness ==
  /\ AppliedVisit
  /\ last.ob.visit_type = Some("Typed")
  /\ Place(db, last.ob.url).typed = 2

\* C5: each page's local and remote visit counts are the numbers of local and
\* remote visit observations applied to its URL, and its last visit dates are
\* the greatest timestamps among them, zero where there is none.
C5_CountsAndDates ==
  \A u \in Urls :
    Known(db, u) =>
      /\ Place(db, u).visit_count_local = hist[u].local
      /\ Place(db, u).visit_count_remote = hist[u].remote
      /\ Place(db, u).last_visit_date_local = hist[u].max_local
      /\ Place(db, u).last_visit_date_remote = hist[u].max_remote

\* local and remote visits interleaved on one page, the newest local visit
\* not the one inserted last
C5_Witness ==
  /\ AppliedVisit
  /\ VisitIsLocal(last.ob)
  /\ Place(db, last.ob.url).visit_count_local = 2
  /\ Place(db, last.ob.url).visit_count_remote = 1
  /\ db.moz_historyvisits[Len(db.moz_historyvisits)].visit_date
       < Place(db, last.ob.url).last_visit_date_local

\* C6: an observation with a visit_type and is_error = true inserts one visit,
\* returns its identifier and leaves the page's frecency what it was (-1 for a
\* page the call created).
C6_ErrorVisit ==
  [][(/\ last'.op = "apply_observation"
      /\ last'.kind = "ok"
      /\ IsSome(last'.ob.visit_type)
      /\ last'.ob.is_error = Some(TRUE))
       => /\ Len(db'.moz_historyvisits) = Len(db.moz_historyvisits) + 1
          /\ last'.value = Some(Len(db'.moz_historyvisits))
          /\ Place(db', last'.ob.url).frecency
               = FrecencyOf(db, last'.ob.url)]_vars

\* an error visit was applied to a page whose frecency had been calculated
C6_Witness ==
  /\ AppliedVisit
  /\ last.ob.is_error = Some(TRUE)
  /\ Place(db, last.ob.url).frecency >= 0

\* C7: after an applied visit that is not flagged as an error, the page's
\* frecency is the score of the store that holds this observation's title,
\* hidden and typed updates and its visit.
C7_FrecencyFresh ==
  (Applied /\ NeedsFrecency(last.ob))
    => Place(db, last.ob.url).frecency
         = calculate_frecency(db, Place(db, last.ob.url).id,
                              Some(get_redirect_frecency_boost(last.ob)))

\* a Typed visit with a title was applied to a page that already had a visit
C7_Witness ==
  /\ Applied
  /\ NeedsFrecency(last.ob)
  /\ last.ob.visit_type = Some("Typed")
  /\ last.ob.title = Some("a")
  /\ Cardinality(PageVisits(db, last.ob.url)) = 2

\* C8: a page's title is the title of the latest applied observation that
\* carried one, and the empty default if none did.
C8_LastTitleWins ==
  \A u \in Urls :
    Known(db, u) => Place(db, u).title = unwrap_or(hist[u].title, "")

\* a URL was observed with one title and then with another, and an untitled
\* observation followed
C8_Witness ==
  /\ Applied
  /\ last.ob.title = None
  /\ hist[last.ob.url].retitled
  /\ Place(db, last.ob.url).title = "b"

\* C9: get_visited answers with one boolean per input URL, in the input's
\* order, true exactly where the URL is that of a page an applied observation
\* created.
C9_GetVisited ==
  (last.op = "get_visited" /\ last.kind = "ok")
    => /\ Len(last.value) = Len(last.urls)
       /\ \A i \in DOMAIN last.urls :
            last.value[i] = (last.urls[i] \in Urls /\ hist[last.urls[i]].seen)

\* a list with a known URL twice, around an unknown one
C9_Witness ==
  /\ last.op = "get_visited"
  /\ last.kind = "ok"
  /\ last.urls = <<"u1", "u3", "u1">>
  /\ last.value = <<TRUE, FALSE, TRUE>>
  /\ ~hist["u2"].seen

\* C10: get_visited answers true only for a URL that has at least one visit.
C10_OnlyVisited ==
  (last.op = "get_visited" /\ last.kind = "ok")
    => \A i \in DOMAIN last.urls :
         last.value[i] => PageVisits(db, last.urls[i]) # {}

\* C11: get_visited_urls(start, end, include_remote) answers with each URL at
\* most once, and with a URL exactly when its page has a visit dated within
\* start..end, both ends included, that is local or, with include_remote, of
\* either kind.
C11_VisitedUrls ==
  (last.op = "get_visited_urls" /\ last.kind = "ok")
    => /\ \A i, j \in DOMAIN last.value : last.value[i] = last.value[j] => i = j
       /\ \A u \in QueryUrls :
            (\E i \in DOMAIN last.value : last.value[i] = u)
              <=> \E v \in PageVisits(db, u) :
                    /\ last.start <= db.moz_historyvisits[v].visit_date
                    /\ db.moz_historyvisits[v].visit_date <= last.end
                    /\ last.include_remote \/ db.moz_historyvisits[v].is_local

\* a query for local visits whose range ends on the date of one page's only
\* local visit and holds only a remote visit of the other page
C11_Witness ==
  /\ last.op = "get_visited_urls"
  /\ last.kind = "ok"
  /\ ~last.include_remote
  /\ last.start = 2
  /\ last.end = 3
  /\ last.value = <<"u2">>
  /\ \E v \in PageVisits(db, "u2") :
       db.moz_historyvisits[v].visit_date = 3 /\ db.moz_historyvisits[v].is_local
  /\ \E v \in PageVisits(db, "u1") :
       db.moz_historyvisits[v].visit_date = 2 /\ ~db.moz_historyvisits[v].is_local

\* the store a transaction in flight leaves when it commits
PostOf(t) == apply_observation(t.pre, t.ob, 0, t.guid_r, "none").store

\* C12: a read made on another connection while an apply_observation is in
\* flight answers as the store before the call or as the store after it does,
\* whatever statements the call has run so far, and what the call commits is
\* that store after it.
C12_ReadIsolated ==
  /\ tx.pc = "commit" => tx.conn = PostOf(tx)
  /\ (last.op = "read" /\ tx.pc # "idle")
       => \/ last.value = RunQuery(tx.pre, last.query)
          \/ last.value = RunQuery(PostOf(tx), last.query)

\* the page was read while the call had inserted the visit of a page it found
\* and had not yet updated the page: the connection of the transaction held a
\* row that is neither the one before nor the one after the call
C12_Witness ==
  /\ last.op = "read"
  /\ last.query = "fetch_page"
  /\ last.pc = "update"
  /\ tx.pc = "update"
  /\ tx.pre # EmptyStore
  /\ last.value = RunQuery(tx.pre, "fetch_page")
  /\ RunQuery(tx.conn, "fetch_page") # RunQuery(tx.pre, "fetch_page")
  /\ RunQuery(tx.conn, "fetch_page") # RunQuery(PostOf(tx), "fetch_page")

\* C13: no two rows of moz_places carry the same URL; a call for a URL that
\* has a page adds no row and gives its visit to that page; and a call that
\* found no page for its URL and comes to create it after another call has
\* created it fails with the storage's error and changes nothing.
C13_OnePagePerUrl ==
  [][/\ \A i, j \in DOMAIN db'.moz_places :
          db'.moz_places[i].url = db'.moz_places[j].url => i = j
     /\ (last'.op = "apply_observation" /\ last'.kind = "ok"
           /\ Known(db, last'.ob.url))
          => /\ Len(db'.moz_places) = Len(db.moz_places)
             /\ db'.moz_historyvisits[Unwrap(last'.value)].place_id
                  = Place(db, last'.ob.url).id
     /\ (tx.pc = "looked" /\ tx'.pc = "idle" /\ tx.found = None
           /\ Known(db, tx.ob.url))
          => /\ last'.op = "apply_observation"
             /\ last'.kind = "err"
             /\ db' = db
             /\ hist' = hist]_vars

\* the call that lost the race has failed, and the page is the winner's
C13_Witness ==
  /\ last.op = "apply_observation"
  /\ last.kind = "err"
  /\ last.fail = "unique"
  /\ Known(db, "u1")
  /\ Place(db, "u1").title = "a"
  /\ Cardinality(PageVisits(db, "u1")) = 1
  /\ ~Known(db, "u2")

\* C14: every step leaves each page its guid and its row id; a page a step
\* adds was made by an apply_observation call for a URL without a page and
\* carries the guid the collaborator returned to that call; and no call for a
\* URL that has a page asks the collaborator for a guid.
C14_GuidStable ==
  [][/\ \A i \in DOMAIN db.moz_places :
          /\ i \in DOMAIN db'.moz_places
          /\ db'.moz_places[i].guid = db.moz_places[i].guid
          /\ db'.moz_places[i].id = db.moz_places[i].id
     /\ \A i \in DOMAIN db'.moz_places \ DOMAIN db.moz_places :
          /\ last'.op = "apply_observation"
          /\ last'.kind = "ok"
          /\ ~Known(db, last'.ob.url)
          /\ i = Len(db.moz_places) + 1
          /\ db'.moz_places[i].id = i
          /\ db'.moz_places[i].guid = NextGuid
     /\ (last'.op = "apply_observation" /\ last'.kind = "panic"
           /\ last'.msg = "random_guid")
          => ~Known(db, last'.ob.url)]_vars

\* a page that took two visits and a new title, and whose frecency was then
\* recalculated, has the guid it was created with
C14_Witness ==
  /\ last.op = "update_frecency"
  /\ last.kind = "ok"
  /\ Known(db, "u1")
  /\ Place(db, "u1").guid = "g1"
  /\ Place(db, "u1").id = 1
  /\ Place(db, "u1").title = "b"
  /\ Cardinality(PageVisits(db, "u1")) = 2

\* C15: an applied observation that carries the empty title leaves a page that
\* has a non-empty title with the title it had.
C15_NonEmptyTitleKept ==
  [][(/\ last'.op = "apply_observation"
      /\ last'.kind = "ok"
      /\ last'.ob.title = Some("")
      /\ Known(db, last'.ob.url)
      /\ Place(db, last'.ob.url).title # "")
       => Place(db', last'.ob.url).title = Place(db, last'.ob.url).title]_vars

\* C16: whatever the limit the list is split by, get_visited marks exactly the
\* indices that one lookup of the whole list, unsplit, returns: a match found
\* in a chunk is marked at its index in the list.
C16_ChunkingInvisible ==
  (last.op = "get_visited" /\ last.kind = "ok")
    => /\ Len(last.value) = Len(last.urls)
       /\ \A i \in DOMAIN last.urls :
            last.value[i]
              = ((i - 1) \in VisitedIndexes(db, last.urls, last.urls, 0))

\* a list that ends in a chunk of one, the only known URL of the list
C16_Witness ==
  /\ last.op = "get_visited"
  /\ last.kind = "ok"
  /\ Known(db, "u1")
  /\ last.size = 3
  /\ last.urls = <<"u3", "u3", "u3", "u1">>
  /\ last.value = <<FALSE, FALSE, FALSE, TRUE>>

\* the visit's kind is one that the policy always hides
HiddenKind(v) == get_is_hidden([visit_type |-> Some(v.visit_type)])

\* C17: a page is hidden exactly when none of its visits, local or remote,
\* flagged as an error or not, is of a kind the policy does not hide; and a
\* page without any visit is as it was created: hidden, frecency -1, empty
\* title, typed 0, no counts and no last visit dates.
C17_HiddenUntilVisited ==
  \A i \in DOMAIN db.moz_places :
    LET h == db.moz_places[i]
    IN /\ h.hidden = (\A v \in VisitsOf(db, h.id) :
                        HiddenKind(db.moz_historyvisits[v]))
       /\ VisitsOf(db, h.id) = {}
            => /\ h.frecency = -1 /\ h.title = "" /\ h.typed = 0
               /\ h.visit_count_local = 0 /\ h.visit_count_remote = 0
               /\ h.last_visit_date_local = 0 /\ h.last_visit_date_remote = 0

\* one page is hidden after a policy-hidden visit, the other was unhidden by
\* a remote visit flagged as an error
C17_Witness ==
  /\ Applied
  /\ Known(db, "u1") /\ Known(db, "u2")
  /\ Place(db, "u1").hidden
  /\ Cardinality(PageVisits(db, "u1")) = 1
  /\ ~Place(db, "u2").hidden
  /\ Place(db, "u2").visit_count_remote = 1
  /\ Place(db, "u2").frecency = -1

\* C18: an applied observation with a visit_type adds one row to
\* moz_historyvisits and changes no other row of it; the row belongs to the
\* page of the observation's URL, is dated at, or by the clock when at is
\* absent, has the observation's visit_type, is local unless is_remote is
\* true, and has no from_visit; the identifier returned is the row's, and no
\* other row has it.
C18_OneVisitRow ==
  [][(/\ last'.op = "apply_observation"
      /\ last'.kind = "ok"
      /\ IsSome(last'.ob.visit_type))
       => LET n == Len(db'.moz_historyvisits)
              v == db'.moz_historyvisits[n]
              ob == last'.ob
          IN /\ n = Len(db.moz_historyvisits) + 1
             /\ SubSeq(db'.moz_historyvisits, 1, n - 1) = db.moz_historyvisits
             /\ v.place_id = Place(db', ob.url).id
             /\ v.visit_date = (IF IsSome(ob.at) THEN Unwrap(ob.at)
                                                ELSE last'.now)
             /\ v.visit_type = Unwrap(ob.visit_type)
             /\ v.is_local = (ob.is_remote # Some(TRUE))
             /\ v.from_visit = None
             /\ last'.value = Some(v.id)
             /\ \A i \in 1..(n - 1) : db'.moz_historyvisits[i].id # v.id]_vars

\* a remote Typed visit without a date of its own, on the second page
C18_Witness ==
  /\ AppliedVisit
  /\ last.ob.url = "u2"
  /\ last.ob.at = None
  /\ last.now = 3
  /\ last.ob.is_remote = Some(TRUE)
  /\ last.value = Some(2)
  /\ db.moz_historyvisits[2]
       = [id |-> 2, from_visit |-> None, place_id |-> 2, visit_date |-> 3,
          visit_type |-> "Typed", is_local |-> FALSE]

\* C19: a call of apply_observation whose guid collaborator fails while the
\* page is created does not crash: like every call that does not succeed (the
\* crash on a page without visits aside) it returns an error value, and it
\* leaves moz_places and moz_historyvisits as they were.
C19_GuidFailureIsError ==
  [][(/\ last'.op = "apply_observation"
      /\ last'.kind # "ok"
      /\ ~(last'.kind = "panic" /\ last'.msg = "No visit id!"))
       => (last'.kind = "err" /\ db' = db)]_vars

TitleOf(store, url) == IF Known(store, url) THEN Place(store, url).title ELSE ""
HiddenOf(store, url) ==
  IF Known(store, url) THEN Place(store, url).hidden ELSE TRUE

\* C20: an applied observation leaves the page's title as it was (the empty
\* default for a page it creates) when it carries no title, typed as it was
\* when its visit is not Typed, and hidden as it was when it has no visit or a
\* policy-hidden one; an observation with neither title nor visit_type applied
\* to a URL that has a page leaves the whole store as it was, and so does a
\* call that does not succeed.
C20_OnlyStagedColumns ==
  [][last'.op = "apply_observation"
       => IF last'.kind = "ok"
            THEN LET ob == last'.ob
                 IN /\ ob.title = None
                         => Place(db', ob.url).title = TitleOf(db, ob.url)
                    /\ ob.visit_type # Some("Typed")
                         => Place(db', ob.url).typed = TypedOf(db, ob.url)
                    /\ (ob.visit_type = None \/ get_is_hidden(ob))
                         => Place(db', ob.url).hidden = HiddenOf(db, ob.url)
                    /\ (ob.title = None /\ ob.visit_type = None
                          /\ Known(db, ob.url))
                         => db' = db
            ELSE db' = db]_vars

\* a policy-hidden visit without a title was applied to a page that has a
\* title, is not hidden and was typed once
C20_Witness ==
  /\ AppliedVisit
  /\ get_is_hidden(last.ob)
  /\ last.ob.title = None
  /\ Place(db, last.ob.url).title = "a"
  /\ ~Place(db, last.ob.url).hidden
  /\ Place(db, last.ob.url).typed = 1

ListedKinds ==
  {"SyncAdapterError", "DuplicateGuid", "NoSuchRecord", "InvalidLogin",
   "SqlError"}
IsNotADatabase(err) ==
  /\ err.kind = "SqlError" /\ err.e.kind = "SqliteFailure"
  /\ err.e.code = "NotADatabase"

\* C21: the code of an error is never 0 or -1; it is INVALID_KEY, which is 5,
\* exactly for a storage failure whose engine code is NotADatabase; it is
\* UNEXPECTED, which is -2, for every other storage failure and every kind
\* get_code does not name; the kinds it names get their own codes, and the
\* six codes other than UNEXPECTED are six different numbers.
C21_ErrorCodes ==
  last.op = "get_code"
    => /\ last.code \notin {0, -1}
       /\ (last.code = INVALID_KEY) = IsNotADatabase(last.err)
       /\ INVALID_KEY = 5 /\ UNEXPECTED = -2
       /\ (last.err.kind = "SqlError" /\ ~IsNotADatabase(last.err))
            => last.code = UNEXPECTED
       /\ last.err.kind \notin ListedKinds => last.code = UNEXPECTED
       /\ last.err.kind = "DuplicateGuid" => last.code = DUPLICATE_GUID
       /\ last.err.kind = "NoSuchRecord" => last.code = NO_SUCH_RECORD
       /\ last.err.kind = "InvalidLogin" => last.code = INVALID_LOGIN
       /\ last.err.kind = "SyncAdapterError"
            => last.code \in {AUTH_INVALID, NETWORK, UNEXPECTED}
       /\ Cardinality({AUTH_INVALID, NO_SUCH_RECORD, DUPLICATE_GUID,
                       INVALID_LOGIN, INVALID_KEY, NETWORK}) = 6

\* a storage failure of the engine that is not NotADatabase got its code
C21_Witness ==
  /\ last.op = "get_code"
  /\ last.err.kind = "SqlError"
  /\ last.err.e.kind = "SqliteFailure"
  /\ last.err.e.code = "DatabaseCorrupt"
  /\ last.code = -2

\* C22: a call of apply_observation for a URL leaves every row of moz_places
\* that has another URL, and every row moz_historyvisits had, exactly as they
\* were: the only row it adds to moz_places has its URL, moz_historyvisits
\* gets at most one row more and none of its rows is changed or removed, and
\* a call that does not succeed changes nothing at all.
C22_OtherRowsUntouched ==
  [][last'.op = "apply_observation"
       => IF last'.kind = "ok"
            THEN LET n == Len(db.moz_historyvisits)
                 IN /\ \A i \in DOMAIN db.moz_places :
                         /\ i \in DOMAIN db'.moz_places
                         /\ db.moz_places[i].url # last'.ob.url
                              => db'.moz_places[i] = db.moz_places[i]
                    /\ \A i \in DOMAIN db'.moz_places \ DOMAIN db.moz_places :
                         db'.moz_places[i].url = last'.ob.url
                    /\ Len(db'.moz_historyvisits) \in {n, n + 1}
                    /\ SubSeq(db'.moz_historyvisits, 1, n)
                         = db.moz_historyvisits
            ELSE db' = db]_vars

\* a Typed visit with a title was applied to the second page while the first
\* page, with a remote visit of its own, has no title and was never typed
C22_Witness ==
  /\ AppliedVisit
  /\ last.ob.url = "u2"
  /\ last.ob.title = Some("a")
  /\ last.ob.visit_type = Some("Typed")
  /\ Place(db, "u2").typed = 1
  /\ Known(db, "u1")
  /\ Place(db, "u1").title = ""
  /\ Place(db, "u1").typed = 0
  /\ Place(db, "u1").visit_count_remote = 1
  /\ Place(db, "u1").visit_count_local = 0

\* C23: every page has a visit dated at its last local or its last remote
\* visit date, so that fetch_page_info answers for the URL of every page.
C23_LastVisitDefined ==
  \A i \in DOMAIN db.moz_places :
    /\ LastVisitIds(db, db.moz_places[i]) # {}
    /\ fetch_page_info(db, db.moz_places[i].url).kind = "ok"

====
